---------------------------- MODULE Spec2Model ----------------------------
(***************************************************************************)
(* Model of the core of lsm-tree: the Level of the level manifest          *)
(* (src/level_manifest/level.rs), the point read of a Segment              *)
(* (src/segment/mod.rs), the InternalValue codec (src/value.rs) and the    *)
(* snapshot scenario of tests/snapshot_len.rs; further the block cache     *)
(* and the file-descriptor table in front of a segment's block loads      *)
(* (tests/open_files.rs), the order of internal keys, a reader's clone of  *)
(* a level, and the point read over the segments of one level.             *)
(*                                                                         *)
(* User keys of levels and segments are abstracted to the integers         *)
(* 1..MaxKey: only their total order is used by that code.  The codec      *)
(* works on real byte sequences.  An Option<T> is a sequence of length 0   *)
(* (None) or 1 (Some).                                                     *)
(***************************************************************************)
EXTENDS Integers, Sequences, FiniteSets, TLC

VARIABLES
    level,       \* the Level: [segments, is_disjoint]
    lvl_op,      \* the last Level operation and its argument
    lvl_result,  \* what the last Level query returned
    seg,         \* a Segment on disk: [metadata, blocks]
    seg_op,      \* the last Segment::get call: its arguments and environment
    seg_result,  \* what that call returned
    cdc_value,   \* the InternalValue given to the codec
    cdc_bytes,   \* the bytes written by serialize, as they are on disk
    cdc_op,      \* the last codec step
    cdc_result,  \* what deserialize returned
    tree_items,  \* the records of the tree, each [key, seqno, value_type]
    tree_seqno,  \* the SequenceNumberCounter
    tree_snap,   \* the snapshot taken, if any: [seqno, keys, view]
    tree_op,     \* the last tree operation
    cache,       \* the block cache: entries [id, handle, block]
    cache_cap,   \* its capacity, in records
    fd_max,      \* max_open of the file-descriptor table
    fd_files,    \* the segments registered with the table: ids 1..fd_files
    fd_open,     \* the ids with an open handle, least recently used first
    fd_op,       \* the last operation on the table and its outcome
    ord_keys,    \* three internal keys given to the comparison
    ord_result,  \* what comparing or sorting them gave
    cl_heap,     \* the segment vectors in memory, by address
    cl_live,     \* the live level of the manifest: [segments, is_disjoint]
    cl_captured  \* the clone a reader holds, if any, and what it saw in it

levelVars == <<level, lvl_op, lvl_result>>
segmentVars == <<seg, seg_op, seg_result>>
codecVars == <<cdc_value, cdc_bytes, cdc_op, cdc_result>>
treeVars == <<tree_items, tree_seqno, tree_snap, tree_op>>
cacheVars == <<cache, cache_cap>>
fdVars == <<fd_max, fd_files, fd_open, fd_op>>
ordVars == <<ord_keys, ord_result>>
cloneVars == <<cl_heap, cl_live, cl_captured>>
auxVars == <<cacheVars, fdVars, ordVars, cloneVars>>
notLevelVars == <<segmentVars, codecVars, treeVars, auxVars>>
notSegmentVars == <<levelVars, codecVars, treeVars, auxVars>>
notCodecVars == <<levelVars, segmentVars, treeVars, auxVars>>
notTreeVars == <<levelVars, segmentVars, codecVars, auxVars>>
notCacheVars == <<levelVars, codecVars, treeVars, fdVars, ordVars, cloneVars>>
notFdVars == <<levelVars, segmentVars, codecVars, treeVars, cacheVars, ordVars,
               cloneVars>>
notOrdVars == <<levelVars, segmentVars, codecVars, treeVars, cacheVars, fdVars,
                cloneVars>>
notCloneVars == <<levelVars, segmentVars, codecVars, treeVars, cacheVars, fdVars,
                  ordVars>>
vars == <<levelVars, segmentVars, codecVars, treeVars, auxVars>>

----------------------------------------------------------------------------
(* Bounds of the model *)

MaxKey == 3            \* user keys of a level's key ranges: 1..MaxKey
MaxLevelSeqNo == 1     \* highest seqno of a segment of a level
MaxSegmentId == 2      \* segment ids: 1..MaxSegmentId
MaxSegments == 2       \* segments in a level
MaxItemKey == 2        \* user keys of a segment's records: 1..MaxItemKey
MaxSeqNo == 2          \* seqnos of a segment's records: 0..MaxSeqNo
MaxItems == 3          \* records in a segment
MaxKeyLen == 2         \* bytes of a user key given to the codec
MaxValueLen == 2       \* bytes of a user value given to the codec
MaxTreeKey == 3        \* user keys written to the tree: 1..MaxTreeKey
MaxInserts == 4        \* inserts into the tree
MaxCacheSize == 2      \* capacity of the block cache when it is on, in records
MaxOpen == 2           \* max_open of the file-descriptor table: 1..MaxOpen
MaxFlushed == 4        \* segments flushed to disk (more than MaxOpen)
MaxReads == 2          \* first_key_value calls in a row
MaxOrdKeyLen == 2      \* bytes of a user key given to the comparison
MaxOrdSeqNo == 1       \* seqnos given to the comparison: 0..MaxOrdSeqNo

Keys == 1..MaxKey
LevelSeqNos == 0..MaxLevelSeqNo
SegmentIds == 1..MaxSegmentId

None == <<>>
Some(x) == <<x>>

----------------------------------------------------------------------------
(* KeyRange: an inclusive (min, max) pair of user keys *)

KeyRanges == {r \in Keys \X Keys : r[1] <= r[2]}

contains_key(r, key) == r[1] <= key /\ key <= r[2]

overlaps_with_key_range(r, other) == r[2] >= other[1] /\ r[1] <= other[2]

\* slice::sort_by is a stable sort.  Sequences are sorted as pairs
\* <<sort key, element>>, ascending by the integer sort key; InsertStable
\* puts p after every element whose key is not greater.
RECURSIVE InsertStable(_, _)
InsertStable(sorted, p) ==
    IF sorted = <<>> THEN <<p>>
    ELSE IF sorted[Len(sorted)][1] <= p[1]
         THEN Append(sorted, p)
         ELSE Append(InsertStable(SubSeq(sorted, 1, Len(sorted) - 1), p),
                     sorted[Len(sorted)])

RECURSIVE StableSort(_)
StableSort(pairs) ==
    IF pairs = <<>> THEN <<>>
    ELSE InsertStable(StableSort(SubSeq(pairs, 1, Len(pairs) - 1)),
                      pairs[Len(pairs)])

Payloads(pairs) == [i \in 1..Len(pairs) |-> pairs[i][2]]

\* KeyRange::is_disjoint: sort by min, then check adjacent ranges.
KeyRange_is_disjoint(ranges) ==
    LET sorted == Payloads(StableSort(
                      [i \in 1..Len(ranges) |-> <<ranges[i][1], ranges[i]>>]))
    IN  \A i \in 1..(Len(sorted) - 1) :
            ~overlaps_with_key_range(sorted[i], sorted[i + 1])

----------------------------------------------------------------------------
(* Level (level_manifest/level.rs).  A segment of a level is its metadata:  *)
(* [id, key_range, seqnos].                                                 *)

\* metadata.seqnos = (lowest, highest).  Level reads only the highest one
\* (seqnos.1), so the segments given to a level all start at seqno 0.
LevelSeqNoRanges == {<<0, hi>> : hi \in LevelSeqNos}

SegmentMetas ==
    [id : SegmentIds, key_range : KeyRanges, seqnos : LevelSeqNoRanges]

\* impl Default for Level
Level_default == [segments |-> <<>>, is_disjoint |-> TRUE]

sort_by_key_range(lv) ==
    [lv EXCEPT !.segments = Payloads(StableSort(
        [i \in 1..Len(lv.segments) |->
            <<lv.segments[i].key_range[1], lv.segments[i]>>]))]

\* b.seqnos.1.cmp(&a.seqnos.1): descending by the highest seqno
sort_by_seqno(lv) ==
    [lv EXCEPT !.segments = Payloads(StableSort(
        [i \in 1..Len(lv.segments) |->
            <<0 - lv.segments[i].seqnos[2], lv.segments[i]>>]))]

sort_AlwaysByKeyRange(lv) == sort_by_key_range(lv)

sort(lv) ==
    IF lv.is_disjoint THEN sort_by_key_range(lv) ELSE sort_by_seqno(lv)

set_disjoint_flag(lv) ==
    LET ranges == [i \in 1..Len(lv.segments) |-> lv.segments[i].key_range]
    IN  [lv EXCEPT !.is_disjoint = KeyRange_is_disjoint(ranges)]

insert(lv, segment) ==
    sort(set_disjoint_flag([lv EXCEPT !.segments = Append(@, segment)]))

retain_FirstMatchOnly(lv, segment_id) ==
    LET at == {i \in DOMAIN lv.segments : lv.segments[i].id = segment_id}
    IN  IF at = {} THEN lv
        ELSE LET first == CHOOSE i \in at : \A j \in at : i <= j
             IN  [lv EXCEPT !.segments =
                     SubSeq(@, 1, first - 1) \o SubSeq(@, first + 1, Len(@))]

\* Vec::retain keeps, in order, the elements the closure accepts.
retain(lv, segment_id) ==
    [lv EXCEPT !.segments =
        SelectSeq(@, LAMBDA x : segment_id /= x.id)]

remove_StaleFlag(lv, segment_id) == sort(retain(lv, segment_id))

remove(lv, segment_id) ==
    sort(set_disjoint_flag(retain(lv, segment_id)))

overlapping_segments_Exclusive(lv, key_range) ==
    SelectSeq(lv.segments,
              LAMBDA x : x.key_range[2] > key_range[1]
                         /\ x.key_range[1] < key_range[2])

overlapping_segments(lv, key_range) ==
    SelectSeq(lv.segments,
              LAMBDA x : overlaps_with_key_range(x.key_range, key_range))

\* slice::partition_point, the binary search of the standard library, over
\* the outcomes preds[i] of the predicate on each element; indices from 0.
RECURSIVE partition_loop(_, _, _)
partition_loop(preds, base, size) ==
    IF size > 1
    THEN LET half == size \div 2
             mid  == base + half
         IN  partition_loop(preds, IF preds[mid + 1] THEN mid ELSE base,
                            size - half)
    ELSE base

partition_point(preds) ==
    IF Len(preds) = 0 THEN 0
    ELSE LET base == partition_loop(preds, 0, Len(preds))
         IN  base + (IF preds[base + 1] THEN 1 ELSE 0)

\* Vec::get(idx), idx from 0
Vec_get(v, idx) == IF idx < Len(v) THEN Some(v[idx + 1]) ELSE None

Panic == [panic |-> TRUE, value |-> None]
Returns(x) == [panic |-> FALSE, value |-> x]

get_segment_containing_key_ByMin(lv, key) ==
    IF ~lv.is_disjoint THEN Panic
    ELSE LET idx == partition_point(
                 [i \in 1..Len(lv.segments) |->
                     lv.segments[i].key_range[1] < key])
         IN  Returns(Vec_get(lv.segments, idx))

get_segment_containing_key_NoAssert(lv, key) ==
    LET idx == partition_point(
            [i \in 1..Len(lv.segments) |-> lv.segments[i].key_range[2] < key])
    IN  Returns(Vec_get(lv.segments, idx))

get_segment_containing_key(lv, key) ==
    IF ~lv.is_disjoint THEN Panic
    ELSE LET idx == partition_point(
                 [i \in 1..Len(lv.segments) |->
                     lv.segments[i].key_range[2] < key])
         IN  Returns(Vec_get(lv.segments, idx))

----------------------------------------------------------------------------
(* The Level state machine *)

LevelInit ==
    /\ level = Level_default
    /\ lvl_op = [name |-> "new", arg |-> None]
    /\ lvl_result = None

\* The segment of the Level specification: none.
SegmentIdle ==
    /\ seg = None
    /\ seg_op = [name |-> "none"]
    /\ seg_result = None

\* The codec of the other specifications: nothing written.
CodecIdle ==
    /\ cdc_value = None
    /\ cdc_bytes = <<>>
    /\ cdc_op = [name |-> "none"]
    /\ cdc_result = None

\* The tree of the other specifications: not opened.
TreeIdle ==
    /\ tree_items = {}
    /\ tree_seqno = 0
    /\ tree_snap = None
    /\ tree_op = "none"

\* The block cache of the other specifications: none.
CacheIdle ==
    /\ cache = {}
    /\ cache_cap = 0

\* The file-descriptor table of the other specifications: none.
FilesIdle ==
    /\ fd_max = 0
    /\ fd_files = 0
    /\ fd_open = <<>>
    /\ fd_op = [name |-> "none"]

\* No internal keys are compared in the other specifications.
OrderIdle ==
    /\ ord_keys = <<>>
    /\ ord_result = None

\* No reader holds a level in the other specifications.
CloneIdle ==
    /\ cl_heap = <<>>
    /\ cl_live = None
    /\ cl_captured = None

AuxIdle ==
    /\ CacheIdle
    /\ FilesIdle
    /\ OrderIdle
    /\ CloneIdle

Init ==
    /\ LevelInit
    /\ SegmentIdle
    /\ CodecIdle
    /\ TreeIdle
    /\ AuxIdle

\* The caller uses the level one call at a time: no query is pending.
LevelReady ==
    lvl_op.name \notin {"overlapping_segments", "get_segment_containing_key"}

Insert ==
    \E segment \in SegmentMetas :
        /\ LevelReady
        /\ Len(level.segments) < MaxSegments
        /\ level' = insert(level, segment)
        /\ lvl_op' = [name |-> "insert", arg |-> None]
        /\ lvl_result' = None
        /\ UNCHANGED notLevelVars

Remove ==
    \E segment_id \in SegmentIds :
        /\ LevelReady
        /\ level' = remove(level, segment_id)
        /\ lvl_op' = [name |-> "remove", arg |-> None]
        /\ lvl_result' = None
        /\ UNCHANGED notLevelVars

OverlappingSegments ==
    \E key_range \in KeyRanges :
        /\ LevelReady
        /\ lvl_op' = [name |-> "overlapping_segments", arg |-> key_range]
        /\ lvl_result' = overlapping_segments(level, key_range)
        /\ UNCHANGED <<level, notLevelVars>>

GetSegmentContainingKey ==
    \E key \in Keys :
        /\ LevelReady
        /\ lvl_op' = [name |-> "get_segment_containing_key", arg |-> <<key>>]
        /\ lvl_result' = get_segment_containing_key(level, key)
        /\ UNCHANGED <<level, notLevelVars>>

\* The caller has taken the result of a query.
QueryReturns ==
    /\ ~LevelReady
    /\ lvl_op' = [name |-> "idle", arg |-> None]
    /\ lvl_result' = None
    /\ UNCHANGED <<level, notLevelVars>>

Next ==
    \/ Insert
    \/ Remove
    \/ OverlappingSegments
    \/ GetSegmentContainingKey
    \/ QueryReturns

Spec == Init /\ [][Next]_vars

----------------------------------------------------------------------------
(* Claims about Level, checked under Spec *)

Segs == level.segments

RangesOverlap(a, b) == a[1] <= b[2] /\ b[1] <= a[2]

\* C1: after any sequence of insert and remove calls from an empty level,
\* is_disjoint is true iff no two segments of the level have overlapping
\* key ranges.
C1_DisjointFlagIsExact ==
    level.is_disjoint <=>
        \A i, j \in DOMAIN Segs :
            i /= j => ~RangesOverlap(Segs[i].key_range, Segs[j].key_range)

\* A remove has left at least two segments that do not overlap.
C1_Witness ==
    /\ lvl_op.name = "remove"
    /\ Len(Segs) >= 2
    /\ level.is_disjoint

\* C2: after every insert or remove the segment list is ordered by
\* key_range.min ascending when the level is disjoint, and by seqnos.max
\* descending when it is not.
C2_SortedAfterMutation ==
    lvl_op.name \in {"insert", "remove"} =>
        \A i, j \in DOMAIN Segs :
            i < j =>
                IF level.is_disjoint
                THEN Segs[i].key_range[1] <= Segs[j].key_range[1]
                ELSE Segs[i].seqnos[2] >= Segs[j].seqnos[2]

\* An insert has left a non-disjoint level whose order by seqno differs
\* from its order by key.
C2_Witness ==
    /\ lvl_op.name = "insert"
    /\ ~level.is_disjoint
    /\ \E i, j \in DOMAIN Segs :
           /\ i < j
           /\ Segs[i].seqnos[2] > Segs[j].seqnos[2]
           /\ Segs[i].key_range[1] > Segs[j].key_range[1]

\* C8: overlapping_segments(q) yields exactly the segments whose key range
\* overlaps q (bounds inclusive), each once and in the level's order, and
\* nothing when none overlaps.
C8_OverlappingSegmentsExact ==
    lvl_op.name = "overlapping_segments" =>
        LET q    == lvl_op.arg
            hits == {i \in DOMAIN Segs :
                        /\ Segs[i].key_range[1] <= q[2]
                        /\ q[1] <= Segs[i].key_range[2]}
        IN  /\ Len(lvl_result) = Cardinality(hits)
            /\ \E f \in [DOMAIN lvl_result -> hits] :
                   /\ \A a, b \in DOMAIN lvl_result : a < b => f[a] < f[b]
                   /\ \A a \in DOMAIN lvl_result : lvl_result[a] = Segs[f[a]]

\* A query that touches a segment only at one bound key returned some but
\* not all segments.
C8_Witness ==
    /\ lvl_op.name = "overlapping_segments"
    /\ Len(lvl_result) >= 1
    /\ Len(lvl_result) < Len(Segs)
    /\ \E i \in DOMAIN lvl_result :
           \/ lvl_result[i].key_range[2] = lvl_op.arg[1]
           \/ lvl_result[i].key_range[1] = lvl_op.arg[2]

\* C9: in a disjoint level at most one segment's key range contains K, and
\* get_segment_containing_key(K) returns that segment if there is one; it
\* returns the first segment in level order whose key_range.max >= K, and
\* None iff K is greater than every segment's max key.
C9_SegmentContainingKey ==
    (lvl_op.name = "get_segment_containing_key" /\ level.is_disjoint) =>
        LET K          == lvl_op.arg[1]
            containing == {i \in DOMAIN Segs :
                              /\ Segs[i].key_range[1] <= K
                              /\ K <= Segs[i].key_range[2]}
            notBelow   == {i \in DOMAIN Segs : Segs[i].key_range[2] >= K}
        IN  /\ Cardinality(containing) <= 1
            /\ \A i \in containing : lvl_result.value = <<Segs[i]>>
            /\ (lvl_result.value = <<>>) <=> (notBelow = {})
            /\ \A i \in notBelow :
                   (\A j \in notBelow : i <= j) => lvl_result.value = <<Segs[i]>>

\* The key lies inside the second segment of a disjoint level.
C9_Witness ==
    /\ lvl_op.name = "get_segment_containing_key"
    /\ level.is_disjoint
    /\ Len(Segs) >= 2
    /\ lvl_result.value = <<Segs[2]>>
    /\ Segs[2].key_range[1] <= lvl_op.arg[1]
    /\ lvl_op.arg[1] <= Segs[2].key_range[2]

\* C10: get_segment_containing_key panics whenever the level's is_disjoint
\* flag is false and never panics on a disjoint level, an empty one included.
C10_PanicsIffNotDisjoint ==
    lvl_op.name = "get_segment_containing_key" =>
        (lvl_result.panic <=> ~level.is_disjoint)

\* The call was made on a non-disjoint level and panicked.
C10_Witness ==
    /\ lvl_op.name = "get_segment_containing_key"
    /\ ~level.is_disjoint
    /\ lvl_result.panic

----------------------------------------------------------------------------
(* Segment (segment/mod.rs).  A record of a segment is                      *)
(* [key, seqno, value_type, value]; a segment on disk is a sequence of data *)
(* blocks, each a sequence of records, sorted by internal key: user key     *)
(* ascending, seqno descending.                                             *)

ItemKeys == 1..MaxItemKey
SeqNos == 0..MaxSeqNo

\* The record written for user key k at seqno s.  Every record carries a
\* value of its own; the records with k + s odd are tombstones.
Record(k, s) ==
    [key        |-> k,
     seqno      |-> s,
     value_type |-> IF (k + s) % 2 = 1 THEN "Tombstone" ELSE "Value",
     value      |-> IF (k + s) % 2 = 1 THEN <<>> ELSE <<k, s>>]

\* Internal key order: user key ascending, then seqno descending.
InternalKeyLess(a, b) ==
    \/ a.key < b.key
    \/ a.key = b.key /\ a.seqno > b.seqno

RECURSIVE SortedRecords(_)
SortedRecords(S) ==
    IF S = {} THEN <<>>
    ELSE LET first == CHOOSE x \in S : \A y \in S \ {x} : InternalKeyLess(x, y)
         IN  <<first>> \o SortedRecords(S \ {first})

\* The data blocks of the sorted records `items`, a block ending after each
\* position of `cuts` and after the last record.
SplitBlocks(items, cuts) ==
    LET ends   == cuts \cup {Len(items)}
        nth(k) == CHOOSE e \in ends : Cardinality({x \in ends : x <= e}) = k
    IN  [b \in 1..Cardinality(ends) |->
            SubSeq(items, IF b = 1 THEN 1 ELSE nth(b - 1) + 1, nth(b))]

Flatten(blocks) ==
    LET RECURSIVE cat(_)
        cat(i) == IF i > Len(blocks) THEN <<>> ELSE blocks[i] \o cat(i + 1)
    IN  cat(1)

\* Metadata of a written segment: key_range is the lowest and highest user
\* key, seqnos the lowest and highest seqno of its records.
MetadataOf(items) ==
    LET seqs == {items[i].seqno : i \in DOMAIN items}
    IN  [key_range |-> <<items[1].key, items[Len(items)].key>>,
         seqnos    |-> <<CHOOSE m \in seqs : \A x \in seqs : m <= x,
                         CHOOSE m \in seqs : \A x \in seqs : m >= x>>]

RecordSets ==
    {S \in SUBSET {Record(k, s) : k \in ItemKeys, s \in SeqNos} :
        S /= {} /\ Cardinality(S) <= MaxItems}

\* Every segment a writer can have produced from at most MaxItems records.
Segments ==
    UNION {
        LET items == SortedRecords(S)
        IN  {[metadata |-> MetadataOf(items), blocks |-> SplitBlocks(items, cuts)] :
                cuts \in SUBSET (1..(Len(items) - 1))}
        : S \in RecordSets}

Items(sg) == Flatten(sg.blocks)

LastKey(block) == block[Len(block)].key

\* The outcome of a fallible call: an error, or a value.
Err == [err |-> TRUE, value |-> None]
Ok(x) == [err |-> FALSE, value |-> x]

\* The environment of a read.  io = 0: every block loads; io = -1: loading
\* an index block fails; io = b > 0: loading data block b fails.
\* bloom_fp: the Bloom filter reports a key the segment does not hold.
IndexFails(io) == io = 0 - 1
BlockFails(io, b) == io = b

\* BloomFilter::contains: no false negatives, false positives allowed.
bloom_contains(sg, key, bloom_fp) ==
    (\E i \in DOMAIN Items(sg) : Items(sg)[i].key = key) \/ bloom_fp

\* BlockIndex::get_lowest_data_block_handle_containing_item: the handle
\* (here the number) of the lowest data block whose last key >= key, None
\* when the key is past the last block.
get_lowest_data_block_handle_containing_item(sg, key, io) ==
    IF IndexFails(io) THEN Err
    ELSE LET idx == partition_point(
                 [b \in 1..Len(sg.blocks) |-> LastKey(sg.blocks[b]) < key])
         IN  Ok(IF idx < Len(sg.blocks) THEN Some(idx + 1) ELSE None)

\* ValueBlock::load_by_block_handle
load_by_block_handle(sg, handle, io) ==
    IF BlockFails(io, handle) THEN Err ELSE Ok(Some(sg.blocks[handle]))

find_key_LastMatch(items, key) ==
    LET hits == {i \in DOMAIN items : items[i].key = key}
    IN  IF hits = {} THEN None
        ELSE Some(items[CHOOSE i \in hits : \A j \in hits : i >= j])

\* Iterator::find on the items of a block
find_key(items, key) ==
    LET hits == {i \in DOMAIN items : items[i].key = key}
    IN  IF hits = {} THEN None
        ELSE Some(items[CHOOSE i \in hits : \A j \in hits : i <= j])

\* Reader::new(..).set_lower_bound(key): what the iterator yields, in order.
\* It starts in the lowest block that can hold the key, skips the records
\* below the bound and walks the following blocks; a block that fails to
\* load ends the iteration with the error.
Reader(sg, key, io) ==
    LET first == get_lowest_data_block_handle_containing_item(sg, key, io)
        RECURSIVE walk(_)
        walk(b) ==
            IF b > Len(sg.blocks) THEN <<>>
            ELSE LET loaded == load_by_block_handle(sg, b, io)
                 IN  IF loaded.err THEN <<Err>>
                     ELSE [i \in 1..Len(SelectSeq(loaded.value[1],
                                                 LAMBDA x : x.key >= key)) |->
                              Ok(SelectSeq(loaded.value[1],
                                           LAMBDA x : x.key >= key)[i])]
                          \o walk(b + 1)
    IN  IF first.err THEN <<Err>>
        ELSE IF first.value = None THEN <<>>
        ELSE walk(first.value[1])

RECURSIVE reader_loop_StopsAtInvisible(_, _, _, _)
reader_loop_StopsAtInvisible(iter, i, key, seqno) ==
    IF i > Len(iter) THEN Ok(None)
    ELSE IF iter[i].err THEN Err
    ELSE LET item == iter[i].value
         IN  IF item.key /= key THEN Ok(None)
             ELSE IF seqno /= None
                  THEN IF item.seqno < seqno[1] THEN Ok(Some(item))
                       ELSE Ok(None)
                  ELSE Ok(Some(item))

RECURSIVE reader_loop_Inclusive(_, _, _, _)
reader_loop_Inclusive(iter, i, key, seqno) ==
    IF i > Len(iter) THEN Ok(None)
    ELSE IF iter[i].err THEN Err
    ELSE LET item == iter[i].value
         IN  IF item.key /= key THEN Ok(None)
             ELSE IF seqno /= None
                  THEN IF item.seqno <= seqno[1] THEN Ok(Some(item))
                       ELSE reader_loop_Inclusive(iter, i + 1, key, seqno)
                  ELSE Ok(Some(item))

RECURSIVE reader_loop_SkipsErrors(_, _, _, _)
reader_loop_SkipsErrors(iter, i, key, seqno) ==
    IF i > Len(iter) THEN Ok(None)
    ELSE IF iter[i].err THEN Ok(None)
    ELSE LET item == iter[i].value
         IN  IF item.key /= key THEN Ok(None)
             ELSE IF seqno /= None
                  THEN IF item.seqno < seqno[1] THEN Ok(Some(item))
                       ELSE reader_loop_SkipsErrors(iter, i + 1, key, seqno)
                  ELSE Ok(Some(item))

\* The `for item in iter` loop of Segment::get over what the reader yields.
RECURSIVE reader_loop(_, _, _, _)
reader_loop(iter, i, key, seqno) ==
    IF i > Len(iter) THEN Ok(None)
    ELSE IF iter[i].err THEN Err
    ELSE LET item == iter[i].value
         IN  IF item.key /= key THEN Ok(None)
             ELSE IF seqno /= None
                  THEN IF item.seqno < seqno[1] THEN Ok(Some(item))
                       ELSE reader_loop(iter, i + 1, key, seqno)
                  ELSE Ok(Some(item))

fast_path_TakesFirstItem(sg, key, io) ==
    LET handle == get_lowest_data_block_handle_containing_item(sg, key, io)
    IN  IF handle.err THEN Some(Err)
        ELSE IF handle.value = None THEN None
        ELSE LET block == load_by_block_handle(sg, handle.value[1], io)
             IN  IF block.err THEN Some(Err)
                 ELSE IF block.value = None THEN Some(Ok(None))
                 ELSE Some(Ok(Some(block.value[1][1])))

\* The no-snapshot fast path of Segment::get: None when it does not return.
fast_path(sg, key, io) ==
    LET handle == get_lowest_data_block_handle_containing_item(sg, key, io)
    IN  IF handle.err THEN Some(Err)
        ELSE IF handle.value = None THEN None
        ELSE LET block == load_by_block_handle(sg, handle.value[1], io)
             IN  IF block.err THEN Some(Err)
                 ELSE IF block.value = None THEN Some(Ok(None))
                 ELSE Some(Ok(find_key(block.value[1], key)))

get_HidesTombstones(sg, key, seqno, io, bloom_fp) ==
    LET found ==
            IF seqno /= None /\ sg.metadata.seqnos[1] >= seqno[1] THEN Ok(None)
            ELSE IF ~contains_key(sg.metadata.key_range, key) THEN Ok(None)
            ELSE IF ~bloom_contains(sg, key, bloom_fp) THEN Ok(None)
            ELSE IF seqno = None /\ fast_path(sg, key, io) /= None
                 THEN fast_path(sg, key, io)[1]
            ELSE reader_loop(Reader(sg, key, io), 1, key, seqno)
    IN  IF ~found.err /\ found.value /= None
              /\ found.value[1].value_type = "Tombstone"
        THEN Ok(None)
        ELSE found

get_SeqnoCheckStrict(sg, key, seqno, io, bloom_fp) ==
    IF seqno /= None /\ sg.metadata.seqnos[1] > seqno[1] THEN Ok(None)
    ELSE IF ~contains_key(sg.metadata.key_range, key) THEN Ok(None)
    ELSE IF ~bloom_contains(sg, key, bloom_fp) THEN Ok(None)
    ELSE IF seqno = None /\ fast_path(sg, key, io) /= None
         THEN fast_path(sg, key, io)[1]
    ELSE reader_loop(Reader(sg, key, io), 1, key, seqno)

\* Segment::get(key, seqno): seqno is None or Some(snapshot seqno).
get(sg, key, seqno, io, bloom_fp) ==
    IF seqno /= None /\ sg.metadata.seqnos[1] >= seqno[1] THEN Ok(None)
    ELSE IF ~contains_key(sg.metadata.key_range, key) THEN Ok(None)
    ELSE IF ~bloom_contains(sg, key, bloom_fp) THEN Ok(None)
    ELSE IF seqno = None /\ fast_path(sg, key, io) /= None
         THEN fast_path(sg, key, io)[1]
    ELSE reader_loop(Reader(sg, key, io), 1, key, seqno)

----------------------------------------------------------------------------
(* Point reads of one segment *)

\* The level of the Segment specification: untouched.
LevelIdle == LevelInit

SegmentInit ==
    /\ LevelIdle
    /\ CodecIdle
    /\ TreeIdle
    /\ AuxIdle
    /\ seg \in Segments
    /\ seg_op = [name |-> "idle"]
    /\ seg_result = None

Snapshots == {Some(s) : s \in 0..(MaxSeqNo + 1)}

\* The caller reads the segment one call at a time.
Call(key, seqno, io, bloom_fp) ==
    /\ seg_op.name = "idle"
    /\ seg_op' = [name |-> "get", key |-> key, seqno |-> seqno, io |-> io,
                  bloom_fp |-> bloom_fp]
    /\ seg_result' = get(seg, key, seqno, io, bloom_fp)
    /\ UNCHANGED <<seg, notSegmentVars>>

\* segment.get(key, None)
GetLatest ==
    \E key \in ItemKeys, io \in (0 - 1)..Len(seg.blocks), bloom_fp \in BOOLEAN :
        Call(key, None, io, bloom_fp)

\* segment.get(key, Some(seqno))
GetSnapshot ==
    \E key \in ItemKeys, seqno \in Snapshots,
       io \in (0 - 1)..Len(seg.blocks), bloom_fp \in BOOLEAN :
        Call(key, seqno, io, bloom_fp)

\* The caller has taken the result.
GetReturns ==
    /\ seg_op.name = "get"
    /\ seg_op' = [name |-> "idle"]
    /\ seg_result' = None
    /\ UNCHANGED <<seg, notSegmentVars>>

SegmentNext ==
    \/ GetLatest
    \/ GetSnapshot
    \/ GetReturns

SpecSegment == SegmentInit /\ [][SegmentNext]_vars

----------------------------------------------------------------------------
(* Claims about Segment::get, checked under SpecSegment *)

Stored == {Items(seg)[i] : i \in DOMAIN Items(seg)}

\* The number of the data block that holds the record r.
BlockOf(r) ==
    CHOOSE b \in DOMAIN seg.blocks :
        \E i \in DOMAIN seg.blocks[b] : seg.blocks[b][i] = r

\* C3: if get(K, Some(S)) returns a record v, then v.user_key = K,
\* v.seqno < S and no record of K has a seqno strictly between v.seqno and
\* S: v is the newest version visible at S, also when the versions of K
\* span more than one data block.
C3_SnapshotReadIsNewestVisible ==
    (seg_op.name = "get" /\ seg_op.seqno /= None
        /\ ~seg_result.err /\ seg_result.value /= None) =>
        LET v == seg_result.value[1]
            K == seg_op.key
            S == seg_op.seqno[1]
        IN  /\ v \in Stored
            /\ v.key = K
            /\ v.seqno < S
            /\ ~\E r \in Stored :
                   r.key = K /\ v.seqno < r.seqno /\ r.seqno < S

\* A snapshot read returned a version of K from a later data block than the
\* one holding the newest version of K, which the snapshot does not see.
C3_Witness ==
    /\ seg_op.name = "get"
    /\ seg_op.seqno /= None
    /\ ~seg_result.err
    /\ seg_result.value /= None
    /\ \E r \in Stored :
           /\ r.key = seg_op.key
           /\ r.seqno >= seg_op.seqno[1]
           /\ BlockOf(r) < BlockOf(seg_result.value[1])

\* The newest record of user key K in the segment, if any.
Newest(K) ==
    LET versions == {r \in Stored : r.key = K}
    IN  IF versions = {} THEN <<>>
        ELSE <<CHOOSE r \in versions : \A q \in versions : q.seqno <= r.seqno>>

\* C4: get(k, None) returns the record of k with the highest seqno stored
\* in the segment, with the value written for it, and None when the
\* segment holds no record of k (the blocks the read needs being loadable).
C4_LatestReadIsNewest ==
    (seg_op.name = "get" /\ seg_op.seqno = None) =>
        /\ seg_op.io = 0 => ~seg_result.err
        /\ ~seg_result.err => seg_result.value = Newest(seg_op.key)

\* A read without snapshot returned the newest of several versions of the
\* key, from a block that is not the first one.
C4_Witness ==
    /\ seg_op.name = "get"
    /\ seg_op.seqno = None
    /\ ~seg_result.err
    /\ seg_result.value /= None
    /\ seg_result.value[1].value_type = "Value"
    /\ BlockOf(seg_result.value[1]) > 1
    /\ \E r \in Stored :
           r.key = seg_op.key /\ r.seqno < seg_result.value[1].seqno

\* The records of user key K that a read at `seqno` sees: all of them at
\* None, those with a seqno below S at Some(S).
VisibleVersions(K, seqno) ==
    {r \in Stored : r.key = K /\ (seqno = None \/ r.seqno < seqno[1])}

\* The newest of them, if any.
NewestVisible(K, seqno) ==
    LET versions == VisibleVersions(K, seqno)
    IN  IF versions = {} THEN <<>>
        ELSE <<CHOOSE r \in versions : \A q \in versions : q.seqno <= r.seqno>>

\* C11: Segment::get returns a tombstone as a record: if the newest version
\* of K that the read sees is a Tombstone written at seqno s, then
\* get(K, Some(s + 1)), any other read that sees it as the newest, and
\* get(K, None) when it is the newest overall, return that tombstone
\* record, not None and not an older version of K (the blocks the read
\* needs being loadable).
C11_TombstoneIsReturned ==
    (seg_op.name = "get"
        /\ NewestVisible(seg_op.key, seg_op.seqno) /= None
        /\ NewestVisible(seg_op.key, seg_op.seqno)[1].value_type = "Tombstone") =>
        /\ seg_op.io = 0 => ~seg_result.err
        /\ ~seg_result.err =>
               seg_result.value = NewestVisible(seg_op.key, seg_op.seqno)

\* get(K, Some(s + 1)) returned the tombstone written at s although the
\* segment holds an older Value of K and a newer version of K.
C11_Witness ==
    /\ seg_op.name = "get"
    /\ seg_op.seqno /= None
    /\ ~seg_result.err
    /\ seg_result.value /= None
    /\ seg_result.value[1].value_type = "Tombstone"
    /\ seg_op.seqno[1] = seg_result.value[1].seqno + 1
    /\ \E r \in Stored :
           /\ r.key = seg_op.key
           /\ r.seqno < seg_result.value[1].seqno
           /\ r.value_type = "Value"
    /\ \E r \in Stored :
           r.key = seg_op.key /\ r.seqno > seg_result.value[1].seqno

\* The read goes past the three short-circuits of Segment::get.
Proceeds ==
    /\ seg_op.seqno /= None => seg.metadata.seqnos[1] < seg_op.seqno[1]
    /\ seg.metadata.key_range[1] <= seg_op.key
    /\ seg_op.key <= seg.metadata.key_range[2]
    /\ (\E r \in Stored : r.key = seg_op.key) \/ seg_op.bloom_fp

\* The lowest data block whose last key is not below K; 0 when there is none.
StartBlock(K) ==
    LET at == {b \in DOMAIN seg.blocks : LastKey(seg.blocks[b]) >= K}
    IN  IF at = {} THEN 0 ELSE CHOOSE b \in at : \A c \in at : b <= c

\* The data blocks holding a record at which a read of K at snapshot S
\* stops: a record of a later key, or a version of K that S sees.
StopBlocks(K, S) ==
    {b \in DOMAIN seg.blocks :
        /\ b >= StartBlock(K)
        /\ \E i \in DOMAIN seg.blocks[b] :
               LET r == seg.blocks[b][i]
               IN  r.key > K \/ (r.key = K /\ r.seqno < S)}

\* The data blocks that the read has to load: the start block alone without
\* snapshot, the start block up to the first stop block (or to the end of
\* the segment) with one.
BlocksLoaded(K, seqno) ==
    IF StartBlock(K) = 0 THEN {}
    ELSE IF seqno = None THEN {StartBlock(K)}
    ELSE LET stops == StopBlocks(K, seqno[1])
         IN  IF stops = {} THEN StartBlock(K)..Len(seg.blocks)
             ELSE StartBlock(K)..(CHOOSE b \in stops : \A c \in stops : b <= c)

C19_ShortCircuitsAreSound ==
    seg_op.name = "get" =>
        /\ (\A r \in Stored :
                /\ seg.metadata.seqnos[1] <= r.seqno
                /\ r.seqno <= seg.metadata.seqnos[2]
                /\ seg.metadata.key_range[1] <= r.key
                /\ r.key <= seg.metadata.key_range[2])
        /\ (seg_op.seqno /= None /\ seg_op.seqno[1] <= seg.metadata.seqnos[1]) =>
               /\ seg_result = Ok(None)
               /\ VisibleVersions(seg_op.key, seg_op.seqno) = {}
        /\ (seg_op.key < seg.metadata.key_range[1]
               \/ seg_op.key > seg.metadata.key_range[2]) =>
               /\ seg_result = Ok(None)
               /\ VisibleVersions(seg_op.key, seg_op.seqno) = {}

\* A snapshot at the lowest seqno of the segment read a key that the
\* segment holds, with the index block unreadable, and got None.
C19_Witness ==
    /\ seg_op.name = "get"
    /\ seg_op.seqno /= None
    /\ seg_op.seqno[1] = seg.metadata.seqnos[1]
    /\ seg_op.seqno[1] > 0
    /\ IndexFails(seg_op.io)
    /\ \E r \in Stored : r.key = seg_op.key
    /\ seg_result = Ok(None)

\* C22: Segment::get(K, Some(S)) has no false negatives: it returns
\* Ok(None) only if the segment holds no record with user key K and
\* seqno < S; skipping versions with seqno >= S continues into following
\* data blocks until the user key changes, so a visible version behind
\* invisible ones is returned unless a load on the way fails.
C22_NoFalseNegative ==
    (seg_op.name = "get" /\ seg_op.seqno /= None) =>
        /\ seg_result = Ok(None) => VisibleVersions(seg_op.key, seg_op.seqno) = {}
        /\ (VisibleVersions(seg_op.key, seg_op.seqno) /= {} /\ ~seg_result.err) =>
               seg_result.value = NewestVisible(seg_op.key, seg_op.seqno)
        /\ (VisibleVersions(seg_op.key, seg_op.seqno) /= {} /\ seg_result.err) =>
               \/ IndexFails(seg_op.io)
               \/ /\ StartBlock(seg_op.key) <= seg_op.io
                  /\ seg_op.io <= BlockOf(NewestVisible(seg_op.key, seg_op.seqno)[1])

\* A snapshot read passed the short-circuits, skipped versions of K that the
\* snapshot does not see in two data blocks, and stopped with Ok(None) at a
\* record of a later key.
C22_Witness ==
    /\ seg_op.name = "get"
    /\ seg_op.seqno /= None
    /\ Proceeds
    /\ seg_result = Ok(None)
    /\ \E r, q \in Stored :
           /\ r.key = seg_op.key
           /\ q.key = seg_op.key
           /\ BlockOf(r) < BlockOf(q)
    /\ \E r \in Stored : r.key > seg_op.key

----------------------------------------------------------------------------
(* Reads without snapshot of a segment whose metadata encloses its records *)
(* without being tight: the key range may reach beyond the first and the   *)
(* last stored key, so that a key inside it can lie past the last block.   *)

EnclosedSegments ==
    UNION {
        {[sg EXCEPT !.metadata.key_range = r] :
            r \in {q \in ItemKeys \X ItemKeys :
                     /\ q[1] <= sg.metadata.key_range[1]
                     /\ sg.metadata.key_range[2] <= q[2]}}
        : sg \in Segments}

FastPathInit ==
    /\ LevelIdle
    /\ CodecIdle
    /\ TreeIdle
    /\ AuxIdle
    /\ seg \in EnclosedSegments
    /\ seg_op = [name |-> "idle"]
    /\ seg_result = None

FastPathNext ==
    \/ GetLatest
    \/ GetReturns

SpecFastPath == FastPathInit /\ [][FastPathNext]_vars

----------------------------------------------------------------------------
(* Claims about the fast path, checked under SpecFastPath *)

\* What a forward scan from lower bound K finds: the first record at or
\* after K in the order of the segment, if its user key is K.
ScanFirst(K) ==
    LET at == {i \in DOMAIN Items(seg) : Items(seg)[i].key >= K}
    IN  IF at = {} THEN None
        ELSE LET i == CHOOSE x \in at : \A y \in at : x <= y
             IN  IF Items(seg)[i].key = K THEN Some(Items(seg)[i]) ELSE None

\* C21: for every segment and key K, the no-snapshot fast path of
\* Segment::get (lowest data block whose last key >= K, then first item with
\* user key K) returns the same result as a forward Reader scan from lower
\* bound K that returns the first item with user key K; when the block
\* index yields no handle the call falls back to that reader scan.
C21_FastPathIsReaderScan ==
    (seg_op.name = "get" /\ seg_op.seqno = None /\ Proceeds) =>
        /\ seg_result =
               reader_loop(Reader(seg, seg_op.key, seg_op.io), 1, seg_op.key, None)
        /\ ~seg_result.err => seg_result.value = ScanFirst(seg_op.key)
        /\ seg_op.io = 0 => ~seg_result.err

\* The fast path found the key in a block that starts with another key and
\* is not the first block of the segment.
C21_Witness ==
    /\ seg_op.name = "get"
    /\ seg_op.seqno = None
    /\ Proceeds
    /\ StartBlock(seg_op.key) > 1
    /\ ~seg_result.err
    /\ seg_result.value /= None
    /\ seg.blocks[StartBlock(seg_op.key)][1].key /= seg_op.key
    /\ seg_result.value = ScanFirst(seg_op.key)

----------------------------------------------------------------------------
(* The block cache in front of the block loads of a segment (spec 4.E).     *)
(* An entry is [id, handle, block]: the decoded block of the segment `id`   *)
(* at `handle`.  Its cost is its number of records.                         *)

TreeId == 0
ThisSegment == 1     \* metadata.id of the segment that is read
OtherSegment == 2    \* another segment of the same tree, read through the same cache

\* The first data block of the other segment.
OtherBlock == <<Record(1, 0)>>

global_segment_id_TreeOnly(tree_id, segment_id) == <<tree_id, 0>>

\* (self.tree_id, self.metadata.id).into(): the GlobalSegmentId that
\* Segment::get hands to every block load.
global_segment_id(tree_id, segment_id) == <<tree_id, segment_id>>

\* BlockCache::get_disk_block
get_disk_block(c, id, handle) ==
    LET hit == {e \in c : e.id = id /\ e.handle = handle}
    IN  IF hit = {} THEN None ELSE Some((CHOOSE e \in hit : TRUE).block)

RECURSIVE cache_size(_)
cache_size(c) ==
    IF c = {} THEN 0
    ELSE LET e == CHOOSE x \in c : TRUE
         IN  Len(e.block) + cache_size(c \ {e})

\* BlockCache::insert_disk_block of the entries, each possible outcome:
\* eviction is approximate LRU, so any entries may be gone afterwards, the
\* new ones included; what stays fits the capacity.
insert_disk_block(c, cap, entries) ==
    {d \in SUBSET (c \cup entries) : cache_size(d) <= cap}

\* ValueBlock::load_by_block_handle with the cache in front of the file:
\* the cached block on a hit, the block read from the file on a miss.
load_by_block_handle_cached(c, id, sg, handle) ==
    LET hit == get_disk_block(c, id, handle)
    IN  IF hit /= None THEN hit[1] ELSE sg.blocks[handle]

\* The segment as its block loads show it through the cache c.
through_cache(sg, segment_id, c) ==
    [sg EXCEPT !.blocks =
        [b \in DOMAIN sg.blocks |->
            load_by_block_handle_cached(
                c, global_segment_id(TreeId, segment_id), sg, b)]]

\* Segment::get with every block load going through the cache.
get_cached(sg, segment_id, key, seqno, bloom_fp, c) ==
    get(through_cache(sg, segment_id, c), key, seqno, 0, bloom_fp)

\* The data blocks that the read loads: those whose failure fails the read.
loads(sg, key, seqno, bloom_fp) ==
    {b \in DOMAIN sg.blocks : get(sg, key, seqno, b, bloom_fp).err}

\* The entries that a read puts into the cache (CachePolicy::Write): the
\* blocks it loaded and did not find there.
missed(sg, segment_id, loaded, c) ==
    {[id |-> global_segment_id(TreeId, segment_id), handle |-> b,
      block |-> sg.blocks[b]] :
        b \in {h \in loaded :
                 get_disk_block(c, global_segment_id(TreeId, segment_id), h) = None}}

\* The blocks of a read that the cache served.
cache_hits(segment_id, loaded, c) ==
    {h \in loaded :
        get_disk_block(c, global_segment_id(TreeId, segment_id), h) /= None}

\* The segments read through the cache: those that a cache of MaxCacheSize
\* holds whole, so that it is as good as unbounded when nothing else is in.
CacheSegments == {sg \in Segments : Len(Items(sg)) <= MaxCacheSize}

CacheInit ==
    /\ LevelIdle
    /\ CodecIdle
    /\ TreeIdle
    /\ FilesIdle
    /\ OrderIdle
    /\ CloneIdle
    /\ seg \in CacheSegments
    /\ seg_op = [name |-> "idle"]
    /\ seg_result = None
    /\ cache = {}
    /\ cache_cap \in {0, MaxCacheSize}

\* segment.get(key, seqno) through the cache
CachedGet ==
    \E key \in ItemKeys, seqno \in {None} \cup Snapshots, bloom_fp \in BOOLEAN :
        LET loaded == loads(seg, key, seqno, bloom_fp)
        IN  /\ seg_op.name = "idle"
            /\ seg_result' =
                   get_cached(seg, ThisSegment, key, seqno, bloom_fp, cache)
            /\ cache' \in insert_disk_block(
                   cache, cache_cap, missed(seg, ThisSegment, loaded, cache))
            /\ seg_op' = [name |-> "get", key |-> key, seqno |-> seqno,
                          io |-> 0, bloom_fp |-> bloom_fp,
                          hits |-> cache_hits(ThisSegment, loaded, cache)]
            /\ UNCHANGED <<seg, cache_cap, notCacheVars>>

\* segment.iter().next(): the first record of the segment, as a
\* first_key_value over it reads it.
CachedFirst ==
    /\ seg_op.name = "idle"
    /\ seg_result' = Ok(Some(through_cache(seg, ThisSegment, cache).blocks[1][1]))
    /\ cache' \in insert_disk_block(
           cache, cache_cap, missed(seg, ThisSegment, {1}, cache))
    /\ seg_op' = [name |-> "first", hits |-> cache_hits(ThisSegment, {1}, cache)]
    /\ UNCHANGED <<seg, cache_cap, notCacheVars>>

\* A read of the other segment loads its first block.
OtherSegmentRead ==
    /\ seg_op.name = "idle"
    /\ cache' \in insert_disk_block(
           cache, cache_cap,
           {[id |-> global_segment_id(TreeId, OtherSegment), handle |-> 1,
             block |-> OtherBlock]})
    /\ cache' /= cache
    /\ UNCHANGED <<segmentVars, cache_cap, notCacheVars>>

\* The caller has taken the result.
CachedReturns ==
    /\ seg_op.name \in {"get", "first"}
    /\ seg_op' = [name |-> "idle"]
    /\ seg_result' = None
    /\ UNCHANGED <<seg, cacheVars, notCacheVars>>

CacheNext ==
    \/ CachedGet
    \/ CachedFirst
    \/ OtherSegmentRead
    \/ CachedReturns

SpecCache == CacheInit /\ [][CacheNext]_vars

----------------------------------------------------------------------------
(* Claims about the block cache, checked under SpecCache *)

\* An unbounded cache that holds every block of the segment.
WarmCache ==
    {[id |-> global_segment_id(TreeId, ThisSegment), handle |-> b,
      block |-> seg.blocks[b]] : b \in DOMAIN seg.blocks}

\* C13: the result of a read does not depend on the block cache: with a
\* cache of capacity 0 and with any cache contents, Segment::get and the
\* read of the first record return what they return when every block comes
\* from the file, and what they return with an unbounded cache that holds
\* every block (the loads from the file succeeding).
C13_CacheIsTransparent ==
    /\ seg_op.name = "get" =>
           /\ seg_result = get(seg, seg_op.key, seg_op.seqno, 0, seg_op.bloom_fp)
           /\ seg_result = get_cached(seg, ThisSegment, seg_op.key, seg_op.seqno,
                                      seg_op.bloom_fp, WarmCache)
           /\ Proceeds =>
                  seg_result = Ok(NewestVisible(seg_op.key, seg_op.seqno))
    /\ seg_op.name = "first" => seg_result = Ok(Some(Items(seg)[1]))

\* A read was served a block by the cache while the cache, being full, held
\* a block of the other segment under the same handle, and found a record.
C13_Witness ==
    /\ seg_op.name = "get"
    /\ 1 \in seg_op.hits
    /\ seg_result.value /= None
    /\ seg_result.value[1] /= OtherBlock[1]
    /\ \E e \in cache : e.id = <<TreeId, OtherSegment>> /\ e.handle = 1
    /\ \E e \in cache : e.id = <<TreeId, ThisSegment>> /\ e.handle = 1

----------------------------------------------------------------------------
(* The file-descriptor table (spec 4.F) under the scenario of               *)
(* tests/open_files.rs: one-key segments are flushed, then first_key_value  *)
(* is called repeatedly.  One handle per segment (concurrency = 1); the     *)
(* open handles are kept least recently used first.                         *)

Range(f) == {f[i] : i \in DOMAIN f}

access_NoEviction(open, max_open, id) ==
    IF id \in Range(open)
    THEN [open |-> Append(SelectSeq(open, LAMBDA x : x /= id), id), ok |-> TRUE]
    ELSE IF Len(open) < max_open
    THEN [open |-> Append(open, id), ok |-> TRUE]
    ELSE [open |-> open, ok |-> FALSE]

\* FileDescriptorTable::access(segment_id): the handle of the segment, now
\* the most recently used.  A segment without a handle gets one opened; a
\* saturated table closes its least-recently-used handle first.  ok: the
\* caller got a handle.
access(open, max_open, id) ==
    IF id \in Range(open)
    THEN [open |-> Append(SelectSeq(open, LAMBDA x : x /= id), id), ok |-> TRUE]
    ELSE IF Len(open) < max_open
    THEN [open |-> Append(open, id), ok |-> TRUE]
    ELSE [open |-> Append(Tail(open), id), ok |-> TRUE]

\* tree.first_key_value(): reads the first block of every segment of level
\* 0 in turn, ids n down to 1, each through the table.  `peak` is the
\* largest number of handles open at a time, `ok` whether every access got
\* its handle.
RECURSIVE first_key_value(_, _, _)
first_key_value(open, max_open, n) ==
    IF n = 0 THEN [open |-> open, ok |-> TRUE, peak |-> Len(open)]
    ELSE LET a == access(open, max_open, n)
             rest == first_key_value(a.open, max_open, n - 1)
         IN  [open |-> rest.open,
              ok   |-> a.ok /\ rest.ok,
              peak |-> IF Len(a.open) > rest.peak THEN Len(a.open) ELSE rest.peak]

FilesInit ==
    /\ LevelIdle
    /\ SegmentIdle
    /\ CodecIdle
    /\ TreeIdle
    /\ CacheIdle
    /\ OrderIdle
    /\ CloneIdle
    /\ fd_max \in 1..MaxOpen
    /\ fd_files = 0
    /\ fd_open = <<>>
    /\ fd_op = [name |-> "open"]

\* tree.insert(key, key, 0); tree.flush_active_memtable(): the new segment
\* is registered with the table, FileDescriptorTable::insert(id, path).
Flush ==
    /\ fd_files < MaxFlushed
    /\ fd_files' = fd_files + 1
    /\ fd_op' = [name |-> "flush"]
    /\ UNCHANGED <<fd_max, fd_open, notFdVars>>

\* A read of one segment.
Access ==
    \E id \in 1..fd_files :
        LET a == access(fd_open, fd_max, id)
        IN  /\ fd_open' = a.open
            /\ fd_op' = [name |-> "access", id |-> id, ok |-> a.ok,
                         before |-> fd_open]
            /\ UNCHANGED <<fd_max, fd_files, notFdVars>>

\* assert!(tree.first_key_value()?.is_some()), the nth call in a row
FirstKeyValue ==
    LET r == first_key_value(fd_open, fd_max, fd_files)
        nth == IF fd_op.name = "first_key_value" THEN fd_op.nth ELSE 0
    IN  /\ fd_files > 0
        /\ nth < MaxReads
        /\ fd_open' = r.open
        /\ fd_op' = [name |-> "first_key_value", nth |-> nth + 1, ok |-> r.ok,
                     peak |-> r.peak]
        /\ UNCHANGED <<fd_max, fd_files, notFdVars>>

FilesNext ==
    \/ Flush
    \/ Access
    \/ FirstKeyValue

SpecFiles == FilesInit /\ [][FilesNext]_vars

----------------------------------------------------------------------------
(* Claims about the file-descriptor table, checked under SpecFiles *)

\* C14: with a bounded file-descriptor table, after any number of flushed
\* segments (more than max_open), never more than max_open handles are open
\* at a time and every read, repeated first_key_value calls included, gets
\* its handles; a saturated table makes room by closing the handle that was
\* used least recently, and no other.
C14_OpenHandlesBounded ==
    /\ Len(fd_open) <= fd_max
    /\ \A i, j \in DOMAIN fd_open : fd_open[i] = fd_open[j] => i = j
    /\ fd_op.name = "first_key_value" => fd_op.ok /\ fd_op.peak <= fd_max
    /\ fd_op.name = "access" =>
           /\ fd_op.ok
           /\ fd_open[Len(fd_open)] = fd_op.id
           /\ LET before == fd_op.before
                  closed == Range(before) \ Range(fd_open)
              IN  IF fd_op.id \notin Range(before) /\ Len(before) = fd_max
                  THEN closed = {before[1]}
                  ELSE closed = {}

\* More segments than max_open were flushed, and after an earlier
\* first_key_value another one succeeded with the table full.
C14_Witness ==
    /\ fd_files > fd_max
    /\ fd_max > 1
    /\ fd_op.name = "first_key_value"
    /\ fd_op.nth > 1
    /\ fd_op.ok
    /\ Len(fd_open) = fd_max

----------------------------------------------------------------------------
(* The InternalValue codec (value.rs).  An InternalValue is                 *)
(* [key |-> [user_key, seqno, value_type], value]; user keys and values are *)
(* sequences of bytes.                                                      *)

Bytes == 0..255

ValueTypes == {"Value", "Tombstone", "WeakTombstone"}

\* impl From<u8> for ValueType
ValueType_from_u8(value) ==
    IF value = 0 THEN "Value" ELSE "Tombstone"

\* impl From<ValueType> for u8
u8_from_ValueType(value) ==
    CASE value = "Value" -> 0
      [] value = "Tombstone" -> 1
      [] value = "WeakTombstone" -> 2

\* write_uN::<BigEndian>(n as uN): the low `width` bytes of n, highest first.
RECURSIVE write_be(_, _)
write_be(n, width) ==
    IF width = 0 THEN <<>>
    ELSE Append(write_be(n \div 256, width - 1), n % 256)

\* read_uN::<BigEndian>
RECURSIVE read_be(_)
read_be(bytes) ==
    IF bytes = <<>> THEN 0
    ELSE read_be(SubSeq(bytes, 1, Len(bytes) - 1)) * 256 + bytes[Len(bytes)]

\* InternalKey::serialize: u16 key_len | key_bytes | u64 seqno | u8 type
InternalKey_serialize(key) ==
    write_be(Len(key.user_key), 2)
        \o key.user_key
        \o write_be(key.seqno, 8)
        \o <<u8_from_ValueType(key.value_type)>>

serialize_LittleEndianLength(v) ==
    InternalKey_serialize(v.key)
        \o <<Len(v.value) % 256, (Len(v.value) \div 256) % 256,
             (Len(v.value) \div 65536) % 256, 0>>
        \o v.value

\* InternalValue::serialize
serialize(v) ==
    InternalKey_serialize(v.key)
        \o write_be(Len(v.value), 4)
        \o v.value

\* Outcomes of deserialize.
DeserializeErr(kind) == [err |-> TRUE, kind |-> kind, value |-> None]
DeserializeOk(v) == [err |-> FALSE, kind |-> "none", value |-> Some(v)]

\* Read::read_exact of n bytes at position pos (from 1): None at end of input.
read_exact(bytes, pos, n) ==
    IF pos + n - 1 <= Len(bytes)
    THEN Some(SubSeq(bytes, pos, pos + n - 1))
    ELSE None

\* InternalKey::deserialize, reading from position 1: the key and the
\* position after it, or None at end of input.
InternalKey_deserialize(bytes) ==
    LET key_len == read_exact(bytes, 1, 2)
    IN  IF key_len = None THEN None
        ELSE
        LET n        == read_be(key_len[1])
            user_key == read_exact(bytes, 3, n)
            seqno    == read_exact(bytes, 3 + n, 8)
            type     == read_exact(bytes, 3 + n + 8, 1)
        IN  IF user_key = None \/ seqno = None \/ type = None THEN None
            ELSE Some([key |-> [user_key   |-> user_key[1],
                                seqno      |-> read_be(seqno[1]),
                                value_type |-> ValueType_from_u8(type[1][1])],
                       next |-> 3 + n + 8 + 1])

\* InternalValue::deserialize
deserialize(bytes) ==
    LET key == InternalKey_deserialize(bytes)
    IN  IF key = None THEN DeserializeErr("Io")
        ELSE
        LET value_len == read_exact(bytes, key[1].next, 4)
        IN  IF value_len = None THEN DeserializeErr("Io")
            ELSE
            LET value == read_exact(bytes, key[1].next + 4, read_be(value_len[1]))
            IN  IF value = None THEN DeserializeErr("Io")
                ELSE DeserializeOk([key |-> key[1].key, value |-> value[1]])

\* The byte sequences of length n, and of length lo..hi, over `alphabet`.
RECURSIVE ByteStringsOfLen(_, _)
ByteStringsOfLen(alphabet, n) ==
    IF n = 0 THEN {<<>>}
    ELSE {Append(b, x) : b \in ByteStringsOfLen(alphabet, n - 1), x \in alphabet}

ByteStrings(alphabet, lo, hi) ==
    UNION {ByteStringsOfLen(alphabet, n) : n \in lo..hi}

\* The values given to the codec: InternalValue::from_components with a
\* non-empty key; seqnos on both sides of a byte boundary and the largest
\* one that TLC's integers hold.
InternalValues ==
    {[key |-> [user_key |-> k, seqno |-> s, value_type |-> t], value |-> w] :
        k \in ByteStrings({1, 255}, 1, MaxKeyLen),
        s \in {0, 1, 256, 2147483647},
        t \in ValueTypes,
        w \in ByteStrings({0, 3}, 0, MaxValueLen)}

\* The value of the test value_raw and the bytes it gives for it.
GoldenValue ==
    [key |-> [user_key |-> <<1, 2, 3>>, seqno |-> 1, value_type |-> "Value"],
     value |-> <<3, 2, 1>>]

GoldenBytes ==
    <<0, 3, 1, 2, 3,
      0, 0, 0, 0, 0, 0, 0, 1,
      0,
      0, 0, 0, 3, 3, 2, 1>>

\* A usize too large for TLC's integers is written <<hi, lo>>, standing for
\* hi * 2^16 + lo with lo < 2^16.  The lengths of long values: 2^16,
\* 2^32 - 1 (the longest a u32 holds), 2^32 and 2^32 + 3.
LongLengths == {<<1, 0>>, <<65535, 65535>>, <<65536, 0>>, <<65536, 3>>}

\* `len as u32`: the low 32 bits.
as_u32(n) == <<n[1] % 65536, n[2]>>

\* write_u32::<BigEndian> of a u32 given as <<hi, lo>>
write_u32_be(n) == write_be(n[1], 2) \o write_be(n[2], 2)

\* InternalValue::serialize of a value of n bytes, up to the value bytes:
\* what it writes before them, and whether it failed.
serialize_long(key, n) ==
    [err |-> FALSE,
     written |-> InternalKey_serialize(key) \o write_u32_be(as_u32(n))]

\* Where the value-type byte of a serialized value lies.
TypeOffset(v) == 2 + Len(v.key.user_key) + 8 + 1

----------------------------------------------------------------------------
(* Writing one InternalValue and reading it back *)

CodecInit ==
    /\ LevelIdle
    /\ SegmentIdle
    /\ TreeIdle
    /\ AuxIdle
    /\ cdc_value \in InternalValues \cup {GoldenValue}
    /\ cdc_bytes = <<>>
    /\ cdc_op = [name |-> "new"]
    /\ cdc_result = None

Serialize ==
    /\ cdc_op.name = "new"
    /\ cdc_bytes' = serialize(cdc_value)
    /\ cdc_op' = [name |-> "serialize"]
    /\ UNCHANGED <<cdc_value, cdc_result, notCodecVars>>

\* The file holds another value-type byte than the one written (a damaged
\* file, or one written by other software).
ForeignTypeByte ==
    \E b \in Bytes :
        /\ cdc_op.name = "serialize"
        /\ b /= cdc_bytes[TypeOffset(cdc_value)]
        /\ cdc_bytes' = [cdc_bytes EXCEPT ![TypeOffset(cdc_value)] = b]
        /\ cdc_op' = [name |-> "foreign"]
        /\ UNCHANGED <<cdc_value, cdc_result, notCodecVars>>

Deserialize ==
    /\ cdc_op.name \in {"serialize", "foreign"}
    /\ cdc_result' = deserialize(cdc_bytes)
    /\ cdc_op' = [name |-> "deserialize", intact |-> cdc_op.name = "serialize"]
    /\ UNCHANGED <<cdc_value, cdc_bytes, notCodecVars>>

\* Serializing a record with the key of cdc_value and a long value, built
\* as a struct (InternalValue::new panics on a value over 2^32 - 1 bytes).
SerializeLong ==
    \E n \in LongLengths :
        /\ cdc_op.name = "new"
        /\ cdc_op' = [name |-> "serialize_long", len |-> n,
                      out |-> serialize_long(cdc_value.key, n)]
        /\ UNCHANGED <<cdc_value, cdc_bytes, cdc_result, notCodecVars>>

\* ValueType::from(byte)
DecodeValueType ==
    \E b \in Bytes :
        /\ cdc_op.name = "new"
        /\ cdc_result' = DeserializeOk(ValueType_from_u8(b))
        /\ cdc_op' = [name |-> "from_u8", byte |-> b]
        /\ UNCHANGED <<cdc_value, cdc_bytes, notCodecVars>>

CodecNext ==
    \/ Serialize
    \/ ForeignTypeByte
    \/ Deserialize
    \/ SerializeLong
    \/ DecodeValueType

SpecCodec == CodecInit /\ [][CodecNext]_vars

----------------------------------------------------------------------------
(* Claims about the codec, checked under SpecCodec *)

\* C6: for every InternalValue v, of every value type (Value, Tombstone,
\* WeakTombstone), deserialize(serialize(v)) = v.
C6_RoundTrip ==
    (cdc_op.name = "deserialize" /\ cdc_op.intact) =>
        cdc_result = DeserializeOk(cdc_value)

\* C7: decoding a value-type byte that denotes no known value type is
\* rejected with a Deserialize error, not mapped to Tombstone.
C7_UnknownTypeByteRejected ==
    /\ (cdc_op.name = "from_u8" /\ cdc_op.byte \notin {0, 1, 2}) =>
           cdc_result.err
    /\ (cdc_op.name = "deserialize"
           /\ cdc_bytes[TypeOffset(cdc_value)] \notin {0, 1, 2}) =>
           cdc_result.err

\* The u32 that four bytes hold, highest byte first (below 2^31).
BE4(bytes, pos) ==
    ((bytes[pos] * 256 + bytes[pos + 1]) * 256 + bytes[pos + 2]) * 256
        + bytes[pos + 3]

\* C15: an InternalValue is encoded as u16 key length, key bytes, u64 seqno,
\* u8 type, u32 value length, value bytes, all big-endian; the value
\* (key=[1,2,3], seqno=1, type=Value, value=[3,2,1]) corresponds to the
\* bytes 00 03 01 02 03 00 00 00 00 00 00 00 01 00 00 00 00 03 03 02 01,
\* both when serializing and when deserializing.
C15_Layout ==
    /\ cdc_op.name = "serialize" =>
           LET k == cdc_value.key.user_key
               w == cdc_value.value
               n == Len(k)
           IN  /\ Len(cdc_bytes) = 2 + n + 8 + 1 + 4 + Len(w)
               /\ cdc_bytes[1] * 256 + cdc_bytes[2] = n
               /\ SubSeq(cdc_bytes, 3, 2 + n) = k
               /\ \A i \in 0..3 : cdc_bytes[3 + n + i] = 0
               /\ BE4(cdc_bytes, 3 + n + 4) = cdc_value.key.seqno
               /\ cdc_bytes[3 + n + 8] =
                      (CASE cdc_value.key.value_type = "Value" -> 0
                         [] cdc_value.key.value_type = "Tombstone" -> 1
                         [] cdc_value.key.value_type = "WeakTombstone" -> 2)
               /\ BE4(cdc_bytes, 3 + n + 9) = Len(w)
               /\ SubSeq(cdc_bytes, 3 + n + 13, Len(cdc_bytes)) = w
    /\ (cdc_op.name = "serialize" /\ cdc_value = GoldenValue) =>
           cdc_bytes = GoldenBytes
    /\ (cdc_op.name = "deserialize" /\ cdc_bytes = GoldenBytes) =>
           cdc_result = DeserializeOk(GoldenValue)

\* The bytes of value_raw were written for its value and read back as it.
C15_Witness ==
    /\ cdc_op.name = "deserialize"
    /\ cdc_op.intact
    /\ cdc_value = GoldenValue
    /\ cdc_bytes = GoldenBytes
    /\ cdc_result = DeserializeOk(GoldenValue)

\* C16: serializing a record whose size is out of range (a value of more
\* than 2^32 - 1 bytes) fails with a Serialize error, and serialize never
\* writes a length prefix that is a truncation (the length mod 2^32) of the
\* real length.
C16_OutOfRangeIsSerializeError ==
    cdc_op.name = "serialize_long" =>
        LET n == Len(cdc_op.out.written)
            prefix == <<cdc_op.out.written[n - 3] * 256 + cdc_op.out.written[n - 2],
                        cdc_op.out.written[n - 1] * 256 + cdc_op.out.written[n]>>
        IN  /\ cdc_op.len[1] >= 65536 => cdc_op.out.err
            /\ ~cdc_op.out.err => prefix = cdc_op.len

----------------------------------------------------------------------------
(* The order of internal keys (impl Ord for InternalKey), as the tests      *)
(* pik_cmp_user_key and pik_cmp_seqno of value.rs use it.                   *)

Less == "Less"
Equal == "Equal"
Greater == "Greater"

\* Ordering::reverse
reverse(o) ==
    CASE o = Less -> Greater
      [] o = Equal -> Equal
      [] o = Greater -> Less

\* Ord for integers
cmp_int(a, b) ==
    IF a < b THEN Less ELSE IF a = b THEN Equal ELSE Greater

\* Ord for byte slices: lexicographic, a proper prefix first.
RECURSIVE cmp_bytes(_, _)
cmp_bytes(a, b) ==
    IF a = <<>> /\ b = <<>> THEN Equal
    ELSE IF a = <<>> THEN Less
    ELSE IF b = <<>> THEN Greater
    ELSE IF Head(a) /= Head(b) THEN cmp_int(Head(a), Head(b))
    ELSE cmp_bytes(Tail(a), Tail(b))

InternalKey_cmp_SeqnoAscending(a, b) ==
    IF cmp_bytes(a.user_key, b.user_key) /= Equal
    THEN cmp_bytes(a.user_key, b.user_key)
    ELSE IF a.seqno /= b.seqno
    THEN cmp_int(a.seqno, b.seqno)
    ELSE cmp_int(u8_from_ValueType(a.value_type), u8_from_ValueType(b.value_type))

\* InternalKey::cmp: by user key, then by seqno reversed, then by type.
InternalKey_cmp(a, b) ==
    IF cmp_bytes(a.user_key, b.user_key) /= Equal
    THEN cmp_bytes(a.user_key, b.user_key)
    ELSE IF a.seqno /= b.seqno
    THEN reverse(cmp_int(a.seqno, b.seqno))
    ELSE cmp_int(u8_from_ValueType(a.value_type), u8_from_ValueType(b.value_type))

\* Inserting a key into a sequence sorted by InternalKey::cmp, and sorting.
RECURSIVE insert_sorted(_, _)
insert_sorted(sorted, x) ==
    IF sorted = <<>> THEN <<x>>
    ELSE IF InternalKey_cmp(x, Head(sorted)) = Less THEN <<x>> \o sorted
    ELSE <<Head(sorted)>> \o insert_sorted(Tail(sorted), x)

RECURSIVE sort_keys(_)
sort_keys(keys) ==
    IF keys = <<>> THEN <<>>
    ELSE insert_sorted(sort_keys(Tail(keys)), Head(keys))

\* InternalKey::new(user_key, seqno, value_type)
InternalKeys ==
    [user_key   : ByteStrings({97, 98}, 1, MaxOrdKeyLen),
     seqno      : 0..MaxOrdSeqNo,
     value_type : {"Value", "Tombstone"}]

OrderInit ==
    /\ LevelIdle
    /\ SegmentIdle
    /\ CodecIdle
    /\ TreeIdle
    /\ CacheIdle
    /\ FilesIdle
    /\ CloneIdle
    /\ ord_keys \in InternalKeys \X InternalKeys \X InternalKeys
    /\ ord_result = None

\* a.cmp(&b) for the three keys, each way round
Compare ==
    /\ ord_result = None
    /\ ord_result' = Some([op |-> "cmp",
                           ab |-> InternalKey_cmp(ord_keys[1], ord_keys[2]),
                           ba |-> InternalKey_cmp(ord_keys[2], ord_keys[1]),
                           bc |-> InternalKey_cmp(ord_keys[2], ord_keys[3]),
                           ac |-> InternalKey_cmp(ord_keys[1], ord_keys[3])])
    /\ UNCHANGED <<ord_keys, notOrdVars>>

\* The three keys put in order, as a memtable or a data block holds them.
SortKeys ==
    /\ ord_result = None
    /\ ord_result' = Some([op |-> "sort", sorted |-> sort_keys(ord_keys)])
    /\ UNCHANGED <<ord_keys, notOrdVars>>

OrderNext ==
    \/ Compare
    \/ SortKeys

SpecOrder == OrderInit /\ [][OrderNext]_vars

----------------------------------------------------------------------------
(* Claims about the order of internal keys, checked under SpecOrder *)

\* The byte string a is before b: a proper prefix of it, or smaller at the
\* first byte where they differ.
LexLess(a, b) ==
    \/ Len(a) < Len(b) /\ SubSeq(b, 1, Len(a)) = a
    \/ \E i \in 1..Len(a) :
           /\ i <= Len(b)
           /\ SubSeq(a, 1, i - 1) = SubSeq(b, 1, i - 1)
           /\ a[i] < b[i]

\* C17: internal keys are totally ordered, ascending by user key and, for
\* equal user keys, descending by seqno: of two internal keys with the same
\* user key the one with the higher seqno compares smaller, so the newest
\* version of a key sorts first.
C17_InternalKeyOrder ==
    /\ (ord_result /= None /\ ord_result[1].op = "cmp") =>
           LET a == ord_keys[1]
               b == ord_keys[2]
               r == ord_result[1]
           IN  /\ r.ab = Equal <=> a = b
               /\ r.ba = reverse(r.ab)
               /\ (r.ab = Less /\ r.bc = Less) => r.ac = Less
               /\ LexLess(a.user_key, b.user_key) => r.ab = Less
               /\ (a.user_key = b.user_key /\ a.seqno > b.seqno) => r.ab = Less
    /\ (ord_result /= None /\ ord_result[1].op = "sort") =>
           LET s == ord_result[1].sorted
           IN  /\ Len(s) = 3
               /\ {s[i] : i \in 1..3} = {ord_keys[i] : i \in 1..3}
               /\ \A i, j \in 1..3 :
                      (i < j /\ s[i].user_key = s[j].user_key) =>
                          s[i].seqno >= s[j].seqno
               /\ \A i, j \in 1..3 :
                      i < j => ~LexLess(s[j].user_key, s[i].user_key)

\* Two versions of one user key and a key before them were sorted, given
\* in the opposite order: the smaller user key came first, then the newer
\* version, then the older one.
C17_Witness ==
    /\ ord_result /= None
    /\ ord_result[1].op = "sort"
    /\ ord_keys[1].user_key = ord_keys[2].user_key
    /\ ord_keys[1].seqno < ord_keys[2].seqno
    /\ ord_keys[3].user_key /= ord_keys[1].user_key
    /\ LexLess(ord_keys[3].user_key, ord_keys[1].user_key)
    /\ ord_result[1].sorted = <<ord_keys[3], ord_keys[2], ord_keys[1]>>

----------------------------------------------------------------------------
(* A point read over one level whose segments hold records: the segments   *)
(* are asked in the order of the level, and the first hit wins.  A segment  *)
(* of the level is [id, key_range, seqnos, segment], the last field being   *)
(* the segment on disk.                                                     *)

\* Arc<Segment> with its metadata, as Level reads it.
WithMetadata(sg, id) ==
    [id |-> id, key_range |-> sg.metadata.key_range,
     seqnos |-> sg.metadata.seqnos, segment |-> sg]

\* The point read of a key without snapshot over the segments of a level.
RECURSIVE point_read(_, _)
point_read(segments, key) ==
    IF segments = <<>> THEN Ok(None)
    ELSE LET found == get(Head(segments).segment, key, None, 0, FALSE)
         IN  IF found.err \/ found.value /= None THEN found
             ELSE point_read(Tail(segments), key)

\* A flushed segment is put into the level.
InsertSegment ==
    \E sg \in Segments :
        /\ lvl_op.name \in {"new", "insert"}
        /\ Len(level.segments) < MaxSegments
        /\ level' = insert(level, WithMetadata(sg, Len(level.segments) + 1))
        /\ lvl_op' = [name |-> "insert", arg |-> None]
        /\ lvl_result' = None
        /\ UNCHANGED notLevelVars

\* tree.get(key) reaching the level
PointRead ==
    \E key \in ItemKeys :
        /\ lvl_op.name = "insert"
        /\ lvl_op' = [name |-> "point_read", arg |-> <<key>>]
        /\ lvl_result' = point_read(level.segments, key)
        /\ UNCHANGED <<level, notLevelVars>>

LevelReadNext ==
    \/ InsertSegment
    \/ PointRead

SpecLevelRead == Init /\ [][LevelReadNext]_vars

----------------------------------------------------------------------------
(* Claims about the point read over a level, checked under SpecLevelRead *)

\* The versions of user key K held by the segments of the level.
VersionsInLevel(K) ==
    {r \in UNION {{Items(level.segments[i].segment)[j] :
                      j \in DOMAIN Items(level.segments[i].segment)} :
                  i \in DOMAIN level.segments} : r.key = K}

\* C20: in a non-disjoint level the segments are checked newest first
\* (highest seqnos.max first), so that whenever two segments of the level
\* hold versions of the same key, a point read that scans the level in
\* order and takes the first hit sees the fresher (higher-seqno) version
\* first.
C20_FresherVersionFirst ==
    (lvl_op.name = "point_read" /\ ~level.is_disjoint) =>
        /\ \A i, j \in DOMAIN level.segments :
               i < j => level.segments[i].seqnos[2] >= level.segments[j].seqnos[2]
        /\ \A r \in VersionsInLevel(lvl_op.arg[1]) :
               /\ ~lvl_result.err
               /\ lvl_result.value /= None
               /\ lvl_result.value[1].seqno >= r.seqno

----------------------------------------------------------------------------
(* A reader holding a clone of a level while the manifest goes on changing  *)
(* the live one.  The segment vector of a Level lies in memory at an        *)
(* address; cl_heap gives the vector at each address in use, and a Level    *)
(* is here [segments |-> address, is_disjoint].                             *)

\* The Level at a handle, as the operations of Level see it.
deref(heap, lv) ==
    [segments |-> heap[lv.segments], is_disjoint |-> lv.is_disjoint]

clone_SharesVector(heap, lv) ==
    [heap |-> heap, level |-> lv]

\* #[derive(Clone)] for Level: Vec::clone allocates a vector of its own
\* holding the same Arc<Segment>s; the flag is copied.
clone(heap, lv) ==
    [heap  |-> Append(heap, heap[lv.segments]),
     level |-> [segments |-> Len(heap) + 1, is_disjoint |-> lv.is_disjoint]]

\* A mutation of the level at lv, done in place on its vector: `after` is
\* the Level that insert or remove leaves.
in_place(heap, lv, after) ==
    [heap  |-> [heap EXCEPT ![lv.segments] = after.segments],
     level |-> [lv EXCEPT !.is_disjoint = after.is_disjoint]]

\* The segments that the manifest puts into the live level.
CloneSegmentMetas ==
    {m \in SegmentMetas :
        /\ m.key_range[1] = m.id
        /\ m.key_range[2] \in {m.id, MaxKey}
        /\ m.seqnos = <<0, 0>>}

CloneInit ==
    /\ LevelIdle
    /\ SegmentIdle
    /\ CodecIdle
    /\ TreeIdle
    /\ CacheIdle
    /\ FilesIdle
    /\ OrderIdle
    /\ cl_heap = <<Level_default.segments>>
    /\ cl_live = Some([segments |-> 1, is_disjoint |-> Level_default.is_disjoint])
    /\ cl_captured = None

\* A reader clones the live level; `seen` is what it read in its clone then.
Capture ==
    LET c == clone(cl_heap, cl_live[1])
    IN  /\ cl_captured = None
        /\ cl_heap' = c.heap
        /\ cl_captured' = Some([level |-> c.level,
                                seen  |-> deref(cl_heap, cl_live[1])])
        /\ UNCHANGED <<cl_live, notCloneVars>>

\* The reader drops its clone, and the vector with it.
Release ==
    /\ cl_captured /= None
    /\ cl_heap' = SubSeq(cl_heap, 1, 1)
    /\ cl_captured' = None
    /\ UNCHANGED <<cl_live, notCloneVars>>

\* Level::insert on the live level
LiveInsert ==
    \E segment \in CloneSegmentMetas :
        LET m == in_place(cl_heap, cl_live[1],
                          insert(deref(cl_heap, cl_live[1]), segment))
        IN  /\ Len(cl_heap[cl_live[1].segments]) < MaxSegments
            /\ cl_heap' = m.heap
            /\ cl_live' = Some(m.level)
            /\ UNCHANGED <<cl_captured, notCloneVars>>

\* Level::remove on the live level
LiveRemove ==
    \E segment_id \in SegmentIds :
        LET m == in_place(cl_heap, cl_live[1],
                          remove(deref(cl_heap, cl_live[1]), segment_id))
        IN  /\ \E i \in DOMAIN cl_heap[cl_live[1].segments] :
                   cl_heap[cl_live[1].segments][i].id = segment_id
            /\ cl_heap' = m.heap
            /\ cl_live' = Some(m.level)
            /\ UNCHANGED <<cl_captured, notCloneVars>>

CloneNext ==
    \/ Capture
    \/ Release
    \/ LiveInsert
    \/ LiveRemove

SpecClone == CloneInit /\ [][CloneNext]_vars

----------------------------------------------------------------------------
(* Claims about a captured level, checked under SpecClone *)

\* C18: a reader that cloned a level before a manifest update keeps
\* observing exactly the segment list and the is_disjoint flag it captured:
\* no later Level::insert or Level::remove on the live level, in any
\* interleaving, changes the captured copy.
C18_CapturedLevelIsFrozen ==
    cl_captured /= None =>
        /\ deref(cl_heap, cl_captured[1].level) = cl_captured[1].seen
        /\ cl_captured[1].level.segments /= cl_live[1].segments

\* The reader captured a disjoint level of two segments; since then the
\* live level lost one of them and got another, and is not disjoint.
C18_Witness ==
    /\ cl_captured /= None
    /\ Len(cl_captured[1].seen.segments) = 2
    /\ cl_captured[1].seen.is_disjoint
    /\ ~deref(cl_heap, cl_live[1]).is_disjoint
    /\ \E i \in 1..2 : \A j \in DOMAIN cl_heap[cl_live[1].segments] :
           cl_heap[cl_live[1].segments][j] /= cl_captured[1].seen.segments[i]
    /\ \E j \in DOMAIN cl_heap[cl_live[1].segments] : \A i \in 1..2 :
           cl_heap[cl_live[1].segments][j] /= cl_captured[1].seen.segments[i]

----------------------------------------------------------------------------
(* The tree and its snapshots, as used by tests/snapshot_len.rs.  The tree  *)
(* holds every record written, [key, seqno, value_type].                    *)

TreeKeys == 1..MaxTreeKey

\* The records a read at `seqno` sees: all of them at None, those with a
\* seqno below s at Some(s).
visible_AtOrBelow(items, seqno) ==
    IF seqno = None THEN items
    ELSE {r \in items : r.seqno <= seqno[1]}

visible(items, seqno) ==
    IF seqno = None THEN items
    ELSE {r \in items : r.seqno < seqno[1]}

\* What iterating yields: for each user key the newest record the read
\* sees, tombstones left out.
iter(items, seqno) ==
    {r \in visible(items, seqno) :
        /\ \A q \in visible(items, seqno) : q.key = r.key => q.seqno <= r.seqno
        /\ r.value_type = "Value"}

\* tree.len(), snapshot.len(), snapshot.iter().rev().count()
len(items, seqno) == Cardinality(iter(items, seqno))

TreeInit ==
    /\ LevelIdle
    /\ SegmentIdle
    /\ CodecIdle
    /\ AuxIdle
    /\ tree_items = {}
    /\ tree_seqno = 0
    /\ tree_snap = None
    /\ tree_op = "open"

\* tree.insert(key, "abc", seqno.next())
TreeInsert ==
    \E key \in TreeKeys :
        /\ tree_seqno < MaxInserts
        /\ tree_items' = tree_items \cup
               {[key |-> key, seqno |-> tree_seqno, value_type |-> "Value"]}
        /\ tree_seqno' = tree_seqno + 1
        /\ tree_op' = IF \E r \in tree_items : r.key = key
                      THEN "overwrite" ELSE "insert"
        /\ UNCHANGED <<tree_snap, notTreeVars>>

\* tree.snapshot(seqno.get()); `keys` remembers the keys written so far
\* and `view` what the tree showed when the snapshot was taken.
TakeSnapshot ==
    /\ tree_snap = None
    /\ tree_snap' = Some([seqno |-> tree_seqno,
                          keys  |-> {r.key : r \in tree_items},
                          view  |-> iter(tree_items, None)])
    /\ tree_op' = "snapshot"
    /\ UNCHANGED <<tree_items, tree_seqno, notTreeVars>>

TreeNext ==
    \/ TreeInsert
    \/ TakeSnapshot

SpecTree == TreeInit /\ [][TreeNext]_vars

----------------------------------------------------------------------------
(* Claims about snapshots, checked under SpecTree *)

\* C5: a snapshot taken at seqno S observes exactly the records with
\* seqno < S: after any later inserts (new keys or overwrites, all with
\* seqno >= S) snapshot.len() is still the number of distinct keys written
\* before S, while tree.len() is the number of all keys written; an
\* overwrite changes neither count.
C5_SnapshotLenIsFrozen ==
    /\ len(tree_items, None) = Cardinality({r.key : r \in tree_items})
    /\ tree_snap /= None =>
           LET S == tree_snap[1].seqno
           IN  /\ len(tree_items, Some(S)) = Cardinality(tree_snap[1].keys)
               /\ iter(tree_items, Some(S)) = tree_snap[1].view
               /\ \A r \in iter(tree_items, Some(S)) : r.seqno < S

\* After the snapshot a key it holds was overwritten and a new key written.
C5_Witness ==
    /\ tree_snap /= None
    /\ tree_snap[1].keys /= {}
    /\ tree_op = "overwrite"
    /\ \E r \in tree_items :
           r.seqno >= tree_snap[1].seqno /\ r.key \in tree_snap[1].keys
    /\ \E r \in tree_items : r.key \notin tree_snap[1].keys
    /\ len(tree_items, None) > len(tree_items, Some(tree_snap[1].seqno))


----------------------------------------------------------------------------
(* Level::insert and Level::remove with the call on record: lvl_op keeps   *)
(* the argument and the level as it was when the call was made.            *)

\* The segments put into the level: each id comes with a narrow and a wide
\* key range, so that ids repeat and both values of is_disjoint occur.
FrameSegmentMetas ==
    {m \in SegmentMetas :
        /\ m.key_range[1] = m.id
        /\ m.key_range[2] \in {m.id, MaxKey}}

FrameInsert ==
    \E segment \in FrameSegmentMetas :
        /\ Len(level.segments) < MaxSegments
        /\ level' = insert(level, segment)
        /\ lvl_op' = [name |-> "insert", arg |-> Some(segment), before |-> level]
        /\ lvl_result' = None
        /\ UNCHANGED notLevelVars

FrameRemove ==
    \E segment_id \in SegmentIds :
        /\ level' = remove(level, segment_id)
        /\ lvl_op' = [name |-> "remove", arg |-> Some(segment_id), before |-> level]
        /\ lvl_result' = None
        /\ UNCHANGED notLevelVars

FrameNext ==
    \/ FrameInsert
    \/ FrameRemove

SpecLevelFrame == Init /\ [][FrameNext]_vars

----------------------------------------------------------------------------
(* Claims about the frame of insert and remove, checked under SpecLevelFrame *)

\* How many times x occurs in the sequence s.
Count(s, x) == Cardinality({i \in DOMAIN s : s[i] = x})

Occurring(s) == {s[i] : i \in DOMAIN s}

\* C23: Level::remove(id) removes every segment whose metadata.id equals id
\* and no other: all remaining segments are kept with the same multiplicity,
\* and if no segment has that id the set of segments and the is_disjoint
\* flag are unchanged; Level::insert adds exactly one segment and removes
\* none.
C23_FrameOfRemoveAndInsert ==
    /\ lvl_op.name = "remove" =>
           LET before == lvl_op.before.segments
               after  == level.segments
               id     == lvl_op.arg[1]
           IN  /\ \A x \in Occurring(after) : x.id /= id
               /\ \A x \in Occurring(before) \cup Occurring(after) :
                      x.id /= id => Count(after, x) = Count(before, x)
               /\ (\A x \in Occurring(before) : x.id /= id) =>
                      /\ after = before
                      /\ level.is_disjoint = lvl_op.before.is_disjoint
    /\ lvl_op.name = "insert" =>
           LET before == lvl_op.before.segments
               after  == level.segments
               added  == lvl_op.arg[1]
           IN  /\ Len(after) = Len(before) + 1
               /\ \A x \in Occurring(before) \cup Occurring(after) :
                      Count(after, x) =
                          Count(before, x) + (IF x = added THEN 1 ELSE 0)

\* remove(id) took a segment out of a level of two and left the other one,
\* of another id, in place.
C23_Witness ==
    /\ lvl_op.name = "remove"
    /\ Len(lvl_op.before.segments) = 2
    /\ Len(level.segments) = 1
    /\ level.segments[1].id /= lvl_op.arg[1]
    /\ level.segments[1] \in Occurring(lvl_op.before.segments)
    /\ \E x \in Occurring(lvl_op.before.segments) : x.id = lvl_op.arg[1]

=============================================================================
